---------------------------- MODULE Spec2Model ----------------------------
(***************************************************************************)
(* Medication-adherence vision pipeline: HandTracker (hand_tracker.py),    *)
(* BottleTracker (bottle_tracker.py), VisionProcessor                      *)
(* (vision_processor.py) and the session / event store handlers of app.py. *)
(*                                                                         *)
(* Conventions of the model                                                *)
(*   - a point or a size is a pair <<a, b>> of integers (pixels);          *)
(*   - a confidence or similarity c in [0,1] is the integer c * ConfScale; *)
(*   - np.sqrt(dx^2 + dy^2) < g is computed as dx^2 + dy^2 < g^2, which    *)
(*     is the same comparison on integer pixel coordinates;                *)
(*   - what the imaging library returns for a frame (contours, boxes,      *)
(*     areas, template similarities) is the input of a call, drawn from    *)
(*     small sets; everything the repository's code decides from it is     *)
(*     computed by the operators below.                                    *)
(***************************************************************************)
EXTENDS Integers, Sequences, FiniteSets

VARIABLES
    \* HandTracker (hand_tracker.py:7-8)
    prev_hands,         \* self.prev_hands: the hands returned by the last track()
    next_id,            \* self.next_id
    \* history of the HandTracker calls (not read by the code)
    hands_before,       \* self.prev_hands as it was when the last track() began
    detected_hands,     \* the detections of the last track()
    hand_ids_assigned,  \* every id some returned hand has carried so far
    \* BottleTracker (bottle_tracker.py:6-8)
    bottles,            \* self.bottles: the bottles returned by the last track()
    prev_bottles,       \* self.prev_bottles
    bottle_templates,   \* self.bottle_templates: the template library
    \* history of the BottleTracker calls (not read by the code)
    detected_bottles,   \* the detections of the last track(), before tracking
    \* history of the VisionProcessor calls (not read by the code)
    frame_log,          \* per process_frame call: what was tracked and returned
    \* the database of app.py
    sessions,           \* VisionSession rows; the row at index i has id i
    vision_events,      \* VisionEvent rows in insertion (id, timestamp) order
    taken,              \* Schedule.taken, per schedule id
    stock,              \* Medication.stock, per medication id
    clock,              \* datetime.now() of the last session end, as a tick count
    response,           \* what the last request returned
    \* history of the requests (not read by the code)
    taken_by,           \* per schedule id, the handler that set taken
    \* requests being served at the same time (one thread and one database
    \* session each), for the handlers taken statement by statement
    requests,           \* per thread: the request, its position, what it loaded
    marked,             \* history: the commits that wrote a taken flag, in order
    \* a direct call of BottleTracker._handle_occlusions
    occlusion_bottles,  \* its argument bottles
    occlusion_hands,    \* its argument hands
    occlusion_result,   \* <<>> before the call, then <<the list returned>>
    \* a direct call of BottleTracker._detect_bottle_state
    state_bottle,       \* its argument bottle
    state_hands,        \* its argument hands
    state_result        \* <<>> before the call, then <<the state returned>>

hand_vars == <<prev_hands, next_id, hands_before, detected_hands, hand_ids_assigned>>

bottle_vars == <<bottles, prev_bottles, bottle_templates, detected_bottles>>

vision_vars == <<hand_vars, bottle_vars, frame_log>>

store_vars == <<sessions, vision_events, taken, stock, clock, response, taken_by>>

request_vars == <<requests, marked>>

occlusion_vars == <<occlusion_bottles, occlusion_hands, occlusion_result>>

detect_state_vars == <<state_bottle, state_hands, state_result>>

vars == <<vision_vars, store_vars, request_vars, occlusion_vars, detect_state_vars>>

----------------------------------------------------------------------------
(* Bounds of the model *)

\* most contours (hands) the imaging library reports in one frame
MaxHands == 2
\* the tracker is exercised until next_id reaches this value
MaxHandId == 3

\* most contours that pass for a bottle region in one frame
MaxRegions == 1
\* most bottles and most hands given to a direct call of _handle_occlusions
MaxOcclusionBottles == 2
MaxOcclusionHands == 2
\* most hands given to a direct call of _detect_bottle_state
MaxStateHands == 2
\* process_frame calls made on one VisionProcessor
MaxFrames == 3

\* VisionSession rows created
MaxSessions == 1
\* VisionSession rows created where sessions are started again and again
MaxStarts == 2
\* VisionEvent rows stored
MaxEvents == 4
\* end_vision_session requests that reach a session
MaxEnds == 2
\* requests served at the same time
MaxInFlight == 2

(* Program constants *)

\* confidences are kept as integers: c is stored as c * ConfScale
ConfScale == 10000
\* matching gate of both trackers, in pixels
Gate == 50
\* minimum contour area of a hand
MinHandArea == 1000

\* minimum contour area of a bottle region
MinBottleArea == 1000
\* template similarity above which a region is a bottle: 0.7
MatchThreshold == 7000
\* confidence below which a bottle counts as occluded: 0.5
OcclusionThreshold == 5000
\* largest distance at which an occluded bottle attaches to a hand
AttachDistance == 100

(* Input sets *)

\* centroids a hand contour may have: (100,100)-(130,100) are 30 apart,
\* (130,100)-(130,140) are 40 apart, (100,100)-(130,140) are exactly 50 apart
HandCenters == {<<100, 100>>, <<130, 100>>, <<130, 140>>}
\* contour areas: the first is below the minimum area
HandAreas == {900, 1300}
\* bounding boxes <<w, h>> of a hand contour
HandBoxes == {<<40, 40>>}

SeqsUpTo(S, n) == UNION {[1..k -> S] : k \in 0..n}

Range(s) == {s[i] : i \in 1..Len(s)}

----------------------------------------------------------------------------
(* Geometry shared by the trackers *)

\* squared Euclidean distance of two points
Dist2(p, q) == (p[1] - q[1]) * (p[1] - q[1]) + (p[2] - q[2]) * (p[2] - q[2])

\* a variant of the gate that also accepts a distance of exactly Gate
WithinGateInclusive(p, q) == Dist2(p, q) <= Gate * Gate

\* "dist < 50" of _track_hands and _track_bottles
WithinGate(p, q) == Dist2(p, q) < Gate * Gate

\* int(np.sqrt(area / np.pi)), with pi taken as 3.14159
RadiusOfArea(area) ==
    CHOOSE r \in 0..(1 + area \div 10) :
        /\ r * r * 314159 <= area * 100000
        /\ (r + 1) * (r + 1) * 314159 > area * 100000

----------------------------------------------------------------------------
(* HandTracker *)

\* contours of a frame, as cv2.findContours / moments / boundingRect give them
HandContours ==
    [center : HandCenters, area : HandAreas, box : HandBoxes]

\* the contour lists of a frame: no two contours share a centroid
HandFrames ==
    {cs \in SeqsUpTo(HandContours, MaxHands) :
        \A i, j \in 1..Len(cs) : i # j => cs[i].center # cs[j].center}

\* RadiusOfArea on the areas of the model, computed once
HandRadius == [a \in HandAreas |-> RadiusOfArea(a)]

\* the hand dictionary _detect_with_contours appends for a contour it keeps
HandOfContour(c) ==
    [ center      |-> c.center,
      radius      |-> HandRadius[c.area],
      orientation |-> 0,
      confidence  |-> IF c.area >= ConfScale THEN ConfScale ELSE c.area ]

\* the filters of _detect_with_contours: area, then aspect ratio w / h
KeepsContour(c) ==
    /\ ~(c.area < MinHandArea)
    /\ ~(2 * c.box[1] < c.box[2] \/ c.box[1] > 2 * c.box[2])

RECURSIVE _detect_with_contours(_)
_detect_with_contours(cs) ==
    IF cs = <<>> THEN <<>>
    ELSE IF KeepsContour(Head(cs))
         THEN <<HandOfContour(Head(cs))>> \o _detect_with_contours(Tail(cs))
         ELSE _detect_with_contours(Tail(cs))

\* a variant of the matching that takes the nearest previous hand within the
\* gate (the first of them on a tie)
NearestHandMatch(prev, c) ==
    IF \E i \in 1..Len(prev) : WithinGate(c, prev[i].center)
    THEN CHOOSE i \in 1..Len(prev) :
            /\ WithinGate(c, prev[i].center)
            /\ \A j \in 1..Len(prev) :
                   Dist2(c, prev[i].center) <= Dist2(c, prev[j].center)
            /\ \A j \in 1..(i - 1) :
                   Dist2(c, prev[i].center) < Dist2(c, prev[j].center)
    ELSE 0

\* index of the first previous hand within the gate of center c, 0 if none
FirstHandMatch(prev, c) ==
    IF \E i \in 1..Len(prev) : WithinGate(c, prev[i].center)
    THEN CHOOSE i \in 1..Len(prev) :
            /\ WithinGate(c, prev[i].center)
            /\ \A j \in 1..(i - 1) : ~WithinGate(c, prev[j].center)
    ELSE 0

\* a variant of the matching that never matches: every hand is a new hand
TrackOneHandNoMatch(prev, hand, nid) ==
    [ hand |-> [ id |-> nid, center |-> hand.center,
                 radius |-> hand.radius, orientation |-> hand.orientation,
                 confidence |-> hand.confidence,
                 velocity |-> <<0, 0>> ],
      next_id |-> nid + 1 ]

\* one iteration of the loop of _track_hands: the tracked hand and the counter
TrackOneHand(prev, hand, nid) ==
    LET m == FirstHandMatch(prev, hand.center) IN
    IF m # 0
    THEN [ hand |-> [ id |-> prev[m].id, center |-> hand.center,
                      radius |-> hand.radius, orientation |-> hand.orientation,
                      confidence |-> hand.confidence,
                      velocity |-> <<hand.center[1] - prev[m].center[1],
                                     hand.center[2] - prev[m].center[2]>> ],
           next_id |-> nid ]
    ELSE [ hand |-> [ id |-> nid, center |-> hand.center,
                      radius |-> hand.radius, orientation |-> hand.orientation,
                      confidence |-> hand.confidence,
                      velocity |-> <<0, 0>> ],
           next_id |-> nid + 1 ]

\* a variant of _track_hands whose velocities are previous minus current
RECURSIVE _track_handsReversedVelocity(_, _, _)
_track_handsReversedVelocity(prev, detected, nid) ==
    IF detected = <<>> THEN [hands |-> <<>>, next_id |-> nid]
    ELSE LET one  == TrackOneHand(prev, Head(detected), nid)
             rest == _track_handsReversedVelocity(prev, Tail(detected), one.next_id)
             hand == [one.hand EXCEPT !.velocity = <<0 - @[1], 0 - @[2]>>]
         IN  [hands |-> <<hand>> \o rest.hands, next_id |-> rest.next_id]

\* _track_hands(detected_hands): the tracked list and the counter after it
RECURSIVE _track_hands(_, _, _)
_track_hands(prev, detected, nid) ==
    IF detected = <<>> THEN [hands |-> <<>>, next_id |-> nid]
    ELSE LET one  == TrackOneHand(prev, Head(detected), nid)
             rest == _track_hands(prev, Tail(detected), one.next_id)
         IN  [hands |-> <<one.hand>> \o rest.hands, next_id |-> rest.next_id]

\* a variant of track that numbers from 0 again when no hand is tracked
HandTrackerTrackRestartingIds(cs) ==
    \E detected \in {_detect_with_contours(cs)} :
    \E tracked \in {_track_hands(prev_hands, detected,
                                  IF prev_hands = <<>> THEN 0 ELSE next_id)} :
        /\ tracked.next_id <= MaxHandId
        /\ prev_hands' = tracked.hands
        /\ next_id' = tracked.next_id
        /\ hands_before' = prev_hands
        /\ detected_hands' = detected
        /\ hand_ids_assigned' =
               hand_ids_assigned \cup {h.id : h \in Range(tracked.hands)}

\* HandTracker.track(frame) in fallback (contour) mode
HandTrackerTrack(cs) ==
    \E detected \in {_detect_with_contours(cs)} :
    \E tracked \in {_track_hands(prev_hands, detected, next_id)} :
        /\ tracked.next_id <= MaxHandId
        /\ prev_hands' = tracked.hands
        /\ next_id' = tracked.next_id
        /\ hands_before' = prev_hands
        /\ detected_hands' = detected
        /\ hand_ids_assigned' =
               hand_ids_assigned \cup {h.id : h \in Range(tracked.hands)}

HandInit ==
    /\ prev_hands = <<>>
    /\ next_id = 0
    /\ hands_before = <<>>
    /\ detected_hands = <<>>
    /\ hand_ids_assigned = {}

----------------------------------------------------------------------------
(* BottleTracker *)

\* names of the templates a library may hold
Templates == {"t1"}

\* the libraries: the one _initialize_bottle_templates returns (empty), and
\* the one a deployment loads in its place
TemplateLibraries == {<<>>, <<"t1">>}

\* top-left corners of the bounding boxes: (100,100)-(120,100) are 20 apart,
\* (100,100)-(130,140) are exactly 50 apart
BottlePositions == {<<100, 100>>, <<120, 100>>, <<130, 140>>}
BottleSizes == {<<40, 100>>}
BottleAreas == {4000}
\* similarity of a region to a template: below 0.5 (and so below the
\* threshold) and above the threshold
Similarities == {4000, 8000}

\* object identities (id(bottle)) a bottle dictionary may be created at:
\* enough for the dictionaries of three frames to be alive at once
Addresses == 1..(3 * MaxRegions)

\* contours of a frame with what cv2 reports of them
BottleContours ==
    [ position : BottlePositions, size : BottleSizes, area : BottleAreas,
      similarity : [Templates -> Similarities] ]

BottleFrames ==
    {cs \in SeqsUpTo(BottleContours, MaxRegions) :
        \A i, j \in 1..Len(cs) : i # j => cs[i].position # cs[j].position}

\* the filter of _find_bottle_regions: 1.5 < h / w < 3.0 and area > 1000
IsBottleRegion(c) ==
    /\ 3 * c.size[1] < 2 * c.size[2]
    /\ c.size[2] < 3 * c.size[1]
    /\ c.area > MinBottleArea

RECURSIVE _find_bottle_regions(_)
_find_bottle_regions(cs) ==
    IF cs = <<>> THEN <<>>
    ELSE IF IsBottleRegion(Head(cs))
         THEN <<Head(cs)>> \o _find_bottle_regions(Tail(cs))
         ELSE _find_bottle_regions(Tail(cs))

\* the loop of _match_bottle_template over the library, from template k on:
\* [score, template] of the best match so far
RECURSIVE BestMatch(_, _, _, _)
BestMatch(library, region, k, best) ==
    IF k > Len(library) THEN best
    ELSE LET score == region.similarity[library[k]] IN
         BestMatch(library, region, k + 1,
                   IF score > best.score
                   THEN [score |-> score, template |-> library[k]]
                   ELSE best)

\* a variant of the matching whose best score starts at 1.0 and not at 0: a
\* region no template beats is returned as a bottle of no template
_match_bottle_templateUnbeaten(library, region) ==
    LET best == BestMatch(library, region, 1, [score |-> ConfScale, template |-> "none"]) IN
    IF best.score > MatchThreshold
    THEN { [ template   |-> best.template,
             position   |-> region.position,
             size       |-> region.size,
             confidence |-> best.score,
             state      |-> "unknown" ] }
    ELSE {}

\* _match_bottle_template(region, frame): the set holding the bottle, or the
\* empty set where the code returns None
_match_bottle_template(library, region) ==
    LET best == BestMatch(library, region, 1, [score |-> 0, template |-> "none"]) IN
    IF best.score > MatchThreshold
    THEN { [ template   |-> best.template,
             position   |-> region.position,
             size       |-> region.size,
             confidence |-> best.score,
             state      |-> "unknown" ] }
    ELSE {}

\* a variant of the loop that keeps every region some template resembles,
\* however little
RECURSIVE DetectBottlesAnyScore(_, _)
DetectBottlesAnyScore(library, regions) ==
    IF regions = <<>> THEN <<>>
    ELSE LET region == Head(regions)
             best   == BestMatch(library, region, 1, [score |-> 0, template |-> "none"])
         IN  (IF best.score > 0
              THEN << [ template   |-> best.template,
                        position   |-> region.position,
                        size       |-> region.size,
                        confidence |-> best.score,
                        state      |-> "unknown" ] >>
              ELSE <<>>)
                 \o DetectBottlesAnyScore(library, Tail(regions))

\* the first loop of track(): the bottles of the regions that match
RECURSIVE DetectBottles(_, _)
DetectBottles(library, regions) ==
    IF regions = <<>> THEN <<>>
    ELSE LET b == _match_bottle_template(library, Head(regions)) IN
         (IF b = {} THEN <<>> ELSE <<CHOOSE x \in b : TRUE>>)
             \o DetectBottles(library, Tail(regions))

\* whether the hand overlaps the cap region of the bottle (top 20 % of the
\* box, widened by the hand's radius): int(0.2 * h) is h \div 5
HandOnCap(bottle, hand) ==
    LET x == bottle.position[1]
        y == bottle.position[2]
        w == bottle.size[1]
        h == bottle.size[2]
        cap_bottom == y + (h \div 5)
        cap_right  == x + w
        hx == hand.center[1]
        hy == hand.center[2]
        hr == hand.radius
    IN  /\ x - hr < hx /\ hx < cap_right + hr
        /\ y - hr < hy /\ hy < cap_bottom + hr

\* the bands with their end points counted in
TwistingGripInclusive(o) ==
    \/ (-45 <= o /\ o <= 45)
    \/ (135 <= o /\ o <= 225)
    \/ (-135 <= o /\ o <= -45)

\* the three orientation bands of _detect_bottle_state
TwistingGrip(o) ==
    \/ (-45 < o /\ o < 45)
    \/ (135 < o /\ o < 225)
    \/ (-135 < o /\ o < -45)

_detect_bottle_state(bottle, hands) ==
    IF \E i \in 1..Len(hands) :
           HandOnCap(bottle, hands[i]) /\ TwistingGrip(hands[i].orientation)
    THEN "open"
    ELSE "closed"

\* index of the first previous bottle within the gate of position p, 0 if none
FirstBottleMatch(prev, p) ==
    IF \E i \in 1..Len(prev) : WithinGate(p, prev[i].position)
    THEN CHOOSE i \in 1..Len(prev) :
            /\ WithinGate(p, prev[i].position)
            /\ \A j \in 1..(i - 1) : ~WithinGate(p, prev[j].position)
    ELSE 0

\* one iteration of the first loop of _track_bottles; addr is id(bottle)
TrackOneBottle(prev, bottle, addr, hands) ==
    LET m     == FirstBottleMatch(prev, bottle.position)
        state == _detect_bottle_state(bottle, hands)
    IN  [ addr               |-> addr,
          template           |-> bottle.template,
          position           |-> bottle.position,
          size               |-> bottle.size,
          confidence         |-> bottle.confidence,
          id                 |-> IF m # 0 THEN prev[m].id ELSE addr,
          velocity           |-> IF m # 0
                                 THEN <<bottle.position[1] - prev[m].position[1],
                                        bottle.position[2] - prev[m].position[2]>>
                                 ELSE <<0, 0>>,
          state              |-> state,
          state_changed      |-> IF m # 0 THEN state # prev[m].state ELSE FALSE,
          attached_to_hand   |-> -1,
          occlusion_handled  |-> FALSE ]

\* index of the nearest hand (the first of the nearest ones), 0 if no hand
NearestHand(bottle, hands) ==
    IF hands = <<>> THEN 0
    ELSE CHOOSE i \in 1..Len(hands) :
            /\ \A j \in 1..Len(hands) :
                   Dist2(bottle.position, hands[i].center)
                       <= Dist2(bottle.position, hands[j].center)
            /\ \A j \in 1..(i - 1) :
                   Dist2(bottle.position, hands[j].center)
                       > Dist2(bottle.position, hands[i].center)

\* a variant of the reattachment that takes the first hand in place of the
\* nearest one
HandleOcclusionFirstHand(bottle, hands) ==
    IF /\ bottle.confidence < OcclusionThreshold
       /\ hands # <<>>
       /\ Dist2(bottle.position, hands[1].center) < AttachDistance * AttachDistance
    THEN [ bottle EXCEPT
             !.position = <<hands[1].center[1] + (bottle.size[1] \div 2),
                            hands[1].center[2] + (bottle.size[2] \div 2)>>,
             !.attached_to_hand = hands[1].id,
             !.occlusion_handled = TRUE ]
    ELSE bottle

\* the body of the loop of _handle_occlusions for one bottle
HandleOcclusion(bottle, hands) ==
    LET n == NearestHand(bottle, hands) IN
    IF /\ bottle.confidence < OcclusionThreshold
       /\ n # 0
       /\ Dist2(bottle.position, hands[n].center) < AttachDistance * AttachDistance
    THEN [ bottle EXCEPT
             !.position = <<hands[n].center[1] + (bottle.size[1] \div 2),
                            hands[n].center[2] + (bottle.size[2] \div 2)>>,
             !.attached_to_hand = hands[n].id,
             !.occlusion_handled = TRUE ]
    ELSE bottle

_handle_occlusions(bs, hands) ==
    [i \in 1..Len(bs) |-> HandleOcclusion(bs[i], hands)]

\* a variant of the tracking that keeps the previous bottles through a frame
\* without detections
_track_bottlesKeepingLost(prev, detected, addrs, hands) ==
    IF detected = <<>> THEN prev
    ELSE _handle_occlusions(
             [i \in 1..Len(detected) |-> TrackOneBottle(prev, detected[i], addrs[i], hands)],
             hands)

\* _track_bottles(detected_bottles, hands); addrs[i] is id(detected[i])
_track_bottles(prev, detected, addrs, hands) ==
    _handle_occlusions(
        [i \in 1..Len(detected) |-> TrackOneBottle(prev, detected[i], addrs[i], hands)],
        hands)

\* the addresses of the dictionaries the tracker still refers to
LiveAddresses == {b.addr : b \in Range(bottles) \cup Range(prev_bottles)}

\* BottleTracker.track(frame, skin_mask, hands)
BottleTrackerTrack(cs, hands) ==
    \E detected \in {DetectBottles(bottle_templates, _find_bottle_regions(cs))} :
    \E addrs \in [1..Len(detected) -> Addresses \ LiveAddresses] :
    \E tracked \in {_track_bottles(prev_bottles, detected, addrs, hands)} :
        /\ \A i, j \in 1..Len(detected) : i # j => addrs[i] # addrs[j]
        /\ prev_bottles' = bottles
        /\ bottles' = tracked
        /\ detected_bottles' = detected
        /\ UNCHANGED bottle_templates

BottleInit ==
    /\ bottles = <<>>
    /\ prev_bottles = <<>>
    /\ bottle_templates \in TemplateLibraries
    /\ detected_bottles = <<>>

\* the hand lists a caller of BottleTracker.track passes: the tracked hands
\* of a frame, at an orientation inside or outside the bands
CallerHands ==
    SeqsUpTo([ id : {0}, center : HandCenters, radius : {HandRadius[1300]},
               orientation : {0, 90}, confidence : {1300}, velocity : {<<0, 0>>} ], 1)

\* Arguments of a direct call of _detect_bottle_state.  The bottle stands at
\* (100,100), 40 wide and 100 or 104 high (a cap region 20 high either way);
\* the hands of radius 20 lie just inside the widened cap region or on one of
\* its four edges, at an orientation inside a band, on the end of a band or
\* outside the bands.
StateSizes == {<<40, 100>>, <<40, 104>>}
StateHandCenters ==
    {<<81, 81>>, <<159, 139>>, <<80, 100>>, <<160, 100>>, <<100, 80>>, <<100, 140>>}
StateOrientations == {-135, -90, -45, 0, 45, 135, 180}

StateBottles ==
    [ template : Templates, position : {<<100, 100>>}, size : StateSizes,
      confidence : {8000} ]

StateHands ==
    [ id : {0}, center : StateHandCenters, radius : {HandRadius[1300]},
      orientation : StateOrientations, confidence : {1300}, velocity : {<<0, 0>>} ]

\* Arguments of a direct call of _handle_occlusions.  The bottles are
\* tracked bottles at (100,100) with a confidence below, at and above 0.5 and
\* a size with even or odd sides; the hands lie 20, 99, exactly 100 and more
\* than 100 px from (100,100).
OcclusionConfidences == {3000, 5000, 8000}
OcclusionSizes == {<<40, 100>>, <<41, 101>>}
OcclusionHandCenters == {<<100, 120>>, <<100, 199>>, <<160, 180>>, <<300, 300>>}

OcclusionBottles ==
    [ addr : {1}, template : Templates, position : {<<100, 100>>},
      size : OcclusionSizes, confidence : OcclusionConfidences, id : {1},
      velocity : {<<0, 0>>}, state : {"closed"}, state_changed : {FALSE},
      attached_to_hand : {-1}, occlusion_handled : {FALSE} ]

\* hand lists with distinct centers; the hand at index i has id i - 1
OcclusionHandLists ==
    { [i \in 1..Len(cs) |->
          [ id |-> i - 1, center |-> cs[i], radius |-> HandRadius[1300],
            orientation |-> 0, confidence |-> 1300, velocity |-> <<0, 0>> ]] :
      cs \in {c \in SeqsUpTo(OcclusionHandCenters, MaxOcclusionHands) :
                 \A i, j \in 1..Len(c) : i # j => c[i] # c[j]} }

\* the call _handle_occlusions(bottles, hands) on the arguments drawn
HandleOcclusions ==
    /\ occlusion_result = <<>>
    /\ occlusion_result' = <<_handle_occlusions(occlusion_bottles, occlusion_hands)>>
    /\ UNCHANGED <<occlusion_bottles, occlusion_hands>>

\* the arguments of the call
OcclusionArguments ==
    /\ occlusion_bottles \in SeqsUpTo(OcclusionBottles, MaxOcclusionBottles)
    /\ occlusion_hands \in OcclusionHandLists
    /\ occlusion_result = <<>>

\* the call _detect_bottle_state(bottle, hands) on the arguments drawn
DetectBottleState ==
    /\ state_result = <<>>
    /\ state_result' = <<_detect_bottle_state(state_bottle, state_hands)>>
    /\ UNCHANGED <<state_bottle, state_hands>>

\* the arguments of the call
DetectStateArguments ==
    /\ state_bottle \in StateBottles
    /\ state_hands \in SeqsUpTo(StateHands, MaxStateHands)
    /\ state_result = <<>>

----------------------------------------------------------------------------
(* VisionProcessor *)

\* _is_hand_near_mouth(hand).  The condition reads
\*     vy < -2 and cy < frame.shape[0] * 0.6
\* and no name `frame` exists in the method or in the module: for a hand with
\* vy < -2 the second operand is evaluated and raises NameError; for any
\* other hand the condition is false without evaluating it.
_is_hand_near_mouth(hand) ==
    IF hand.velocity[2] < -2 THEN "NameError" ELSE "False"

\* the events of the second loop of detect_events, from bottle k on
RECURSIVE BottleEvents(_, _)
BottleEvents(bs, k) ==
    IF k > Len(bs) THEN <<>>
    ELSE (IF bs[k].state_changed /\ bs[k].state = "open"
          THEN <<[type |-> "bottle_open", confidence |-> bs[k].confidence]>>
          ELSE IF bs[k].state_changed /\ bs[k].state = "closed"
          THEN <<[type |-> "bottle_close", confidence |-> bs[k].confidence]>>
          ELSE <<>>)
         \o BottleEvents(bs, k + 1)

\* the events of the first loop of detect_events, from hand k on
RECURSIVE HandEvents(_, _)
HandEvents(hands, k) ==
    IF k > Len(hands) THEN <<>>
    ELSE (IF _is_hand_near_mouth(hands[k]) = "True"
          THEN <<[type |-> "hand_to_mouth", confidence |-> hands[k].confidence]>>
          ELSE <<>>)
         \o HandEvents(hands, k + 1)

\* detect_events(hands, bottles, session_id): the list returned, or the
\* exception that leaves the method
detect_events(hands, bs) ==
    IF \E k \in 1..Len(hands) : _is_hand_near_mouth(hands[k]) = "NameError"
    THEN [raised |-> TRUE, events |-> <<>>]
    ELSE [raised |-> FALSE, events |-> HandEvents(hands, 1) \o BottleEvents(bs, 1)]

\* process_frame(frame, session_id): hand tracking, bottle tracking with the
\* tracked hands, event detection
process_frame(hcs, bcs) ==
    /\ Len(frame_log) < MaxFrames
    /\ HandTrackerTrack(hcs)
    /\ BottleTrackerTrack(bcs, prev_hands')
    /\ frame_log' = Append(frame_log,
                           [ hands    |-> prev_hands',
                             detected |-> detected_bottles',
                             bottles  |-> bottles',
                             result   |-> detect_events(prev_hands', bottles') ])

\* frame.shape[0] of the frames given to a VisionProcessor
FrameHeight == 480

\* the frames given to a VisionProcessor: at most one hand contour
ProcessorHandFrames == {cs \in HandFrames : Len(cs) <= 1}

----------------------------------------------------------------------------
(* app.py: the session and event store *)

\* The rows init_sample_data creates: one senior (id 1), medications 1
\* (Metformin, stock 15) and 2 (Lisinopril, stock 5), both of senior 1, and
\* schedules 1 (medication 1, 08:00, taken), 2 (medication 1, 20:00) and
\* 3 (medication 2, 12:00).  No handler adds or removes any of these rows.
MedicationSenior == <<1, 1>>
InitialStock == <<15, 5>>
ScheduleRows ==
    << [medication_id |-> 1, time |-> "08:00"],
       [medication_id |-> 1, time |-> "20:00"],
       [medication_id |-> 2, time |-> "12:00"] >>
InitialTaken == <<TRUE, FALSE, FALSE>>

\* no value (None, NULL)
NULL == 0

\* what a request may carry
SeniorIds == {1, 2}                  \* the Senior-Id header, an integer
RequestSessionIds == 1..MaxSessions  \* "sessionId"
RequestMedicationIds == {NULL, 1}    \* "medicationId" of a session start
MedicationIds == {1, 2, 3}           \* "medicationId" of record-medication
EventTypes == {"bottle_open", "hand_to_mouth", "bottle_close"}  \* "eventType"
Confidences == {9000}                \* "confidence"
ClientConfidences == {9000, 15000}   \* "confidence", any number a client sends
EndStatuses == {"completed", "failed"}   \* "status" of a session end
\* "status" of a session end, any string a client sends
ClientEndStatuses == {"completed", "failed", "active", "paused"}
\* "sessionId" of a request when two sessions are open
TwoSessionIds == 1..2
Times == {"08:00", "12:00", "20:00"}     \* get_current_time() at the request

\* a variant of the lookup that filters by id only
FindSessionAnySenior(session_id, senior_id) ==
    IF session_id \in 1..Len(sessions) THEN session_id ELSE NULL

\* VisionSession.query.filter_by(id=session_id, senior_id=senior_id).first():
\* the id of the row, or NULL
FindSession(session_id, senior_id) ==
    IF /\ session_id \in 1..Len(sessions)
       /\ sessions[session_id].senior_id = senior_id
    THEN session_id
    ELSE NULL

\* a variant of the lookup that falls back to medication 1 when given no id
GetMedicationOrFirst(medication_id) ==
    IF medication_id \in 1..Len(MedicationSenior) THEN medication_id ELSE 1

\* Medication.query.get(medication_id): the id of the row, or NULL
GetMedication(medication_id) ==
    IF medication_id \in 1..Len(MedicationSenior) THEN medication_id ELSE NULL

\* Schedule.query.filter_by(medication_id=..., time=...).first(): the id of
\* the first row, or NULL
FirstSchedule(medication_id, time) ==
    LET rows == {i \in 1..Len(ScheduleRows) :
                    /\ ScheduleRows[i].medication_id = medication_id
                    /\ ScheduleRows[i].time = time}
    IN  IF rows = {} THEN NULL
        ELSE CHOOSE i \in rows : \A j \in rows : i <= j

\* the VisionEvent rows of session sid with the given types, as
\* record_vision_event writes them
EventRowsOf(sid, types) ==
    [i \in 1..Len(types) |->
        [session_id |-> sid, event_type |-> types[i], confidence |-> 9000]]

\* a variant of the query without the filter: the events of every session
SessionEventsOfAll(evs, session_id) == evs

\* VisionEvent.query.filter_by(session_id=session_id).all(), on the rows evs
SessionEvents(evs, session_id) ==
    SelectSeq(evs, LAMBDA e : e.session_id = session_id)

\* start_vision_session, while fewer than most rows exist
StartSessionUpTo(senior_id, medication_id, most) ==
    /\ Len(sessions) < most
    /\ sessions' = Append(sessions,
                          [ senior_id     |-> senior_id,
                            medication_id |-> medication_id,
                            status        |-> "active",
                            end_time      |-> NULL ])
    /\ response' = "success"
    /\ UNCHANGED <<vision_events, taken, stock, clock, taken_by>>

\* start_vision_session
start_vision_session(senior_id, medication_id) ==
    StartSessionUpTo(senior_id, medication_id, MaxSessions)

\* a variant of the sequence test that looks at the last three events only
CompleteSequenceLastThree(events) ==
    LET n == Len(events) IN
    /\ n >= 3
    /\ events[n - 2].event_type = "bottle_open"
    /\ events[n - 1].event_type = "hand_to_mouth"

\* a variant of the sequence test that wants exactly one bottle_open
CompleteSequenceOneOpen(events) ==
    /\ Cardinality({i \in 1..Len(events) : events[i].event_type = "bottle_open"}) = 1
    /\ \E i \in 1..Len(events) : events[i].event_type = "hand_to_mouth"

\* "has_open and has_hand_to_mouth" of record_vision_event
CompleteSequence(events) ==
    /\ \E i \in 1..Len(events) : events[i].event_type = "bottle_open"
    /\ \E i \in 1..Len(events) : events[i].event_type = "hand_to_mouth"

\* the schedule record_vision_event marks as taken for the stored events
\* evs (the new event among them), or NULL when it marks none
ScheduleToMark(evs, session_id, event_type, now) ==
    LET medication == GetMedication(sessions[session_id].medication_id) IN
    IF /\ event_type = "bottle_close"
       /\ CompleteSequence(SessionEvents(evs, session_id))
       /\ medication # NULL
    THEN LET schedule == FirstSchedule(medication, now) IN
         IF schedule # NULL /\ ~taken[schedule] THEN schedule ELSE NULL
    ELSE NULL

\* record_vision_event
record_vision_event(senior_id, session_id, event_type, confidence, now) ==
    IF FindSession(session_id, senior_id) = NULL
    THEN /\ response' = "Invalid session"
         /\ UNCHANGED <<sessions, vision_events, taken, stock, clock, taken_by>>
    ELSE /\ Len(vision_events) < MaxEvents
         /\ vision_events' = Append(vision_events,
                                    [ session_id |-> session_id,
                                      event_type |-> event_type,
                                      confidence |-> confidence ])
         /\ \E sch \in {ScheduleToMark(vision_events', session_id, event_type, now)} :
                IF sch # NULL
                THEN /\ taken' = [taken EXCEPT ![sch] = TRUE]
                     /\ stock' = [stock EXCEPT ![ScheduleRows[sch].medication_id] = @ - 1]
                     /\ taken_by' = [taken_by EXCEPT ![sch] = "record_vision_event"]
                ELSE UNCHANGED <<taken, stock, taken_by>>
         /\ response' = "success"
         /\ UNCHANGED <<sessions, clock>>

\* the assignments of end_vision_session to the session it found
EndSession(session_id, status) ==
    /\ clock' = clock + 1
    /\ sessions' = [sessions EXCEPT ![session_id].end_time = clock + 1,
                                    ![session_id].status = status]

\* end_vision_session
end_vision_session(senior_id, session_id, status) ==
    IF FindSession(session_id, senior_id) = NULL
    THEN /\ response' = "Invalid session"
         /\ UNCHANGED <<sessions, vision_events, taken, stock, clock, taken_by>>
    ELSE /\ clock < MaxEnds
         /\ EndSession(session_id, status)
         /\ response' = "success"
         /\ UNCHANGED <<vision_events, taken, stock, taken_by>>

\* a variant of process_vision_frame that stores a bottle_close it detected
\* through record_vision_event, dose rule included
process_vision_frameApplyingRule(senior_id, session_id) ==
    record_vision_event(senior_id, session_id, "bottle_close", 9000, "20:00")

\* process_vision_frame.  After the session check the handler decodes the
\* frame with np.frombuffer and cv2.imdecode and builds a VisionProcessor;
\* app.py imports none of np, cv2 and VisionProcessor, so for a session it
\* finds, the request ends in NameError at np.frombuffer (a 500 response)
\* before any event is added.
process_vision_frame(senior_id, session_id) ==
    /\ response' = IF FindSession(session_id, senior_id) = NULL
                   THEN "Invalid session"
                   ELSE "Internal Server Error"
    /\ UNCHANGED <<sessions, vision_events, taken, stock, clock, taken_by>>

\* a variant of record_medication without the "already taken" check
record_medicationRepeated(senior_id, medication_id, now) ==
    LET med == GetMedication(medication_id)
        sch == FirstSchedule(medication_id, now)
    IN
    IF med = NULL \/ MedicationSenior[med] # senior_id
    THEN /\ response' = "Medication not found"
         /\ UNCHANGED <<sessions, vision_events, taken, stock, clock, taken_by>>
    ELSE IF sch = NULL
    THEN /\ response' = "No medication scheduled at this time"
         /\ UNCHANGED <<sessions, vision_events, taken, stock, clock, taken_by>>
    ELSE /\ taken' = [taken EXCEPT ![sch] = TRUE]
         /\ stock' = [stock EXCEPT ![med] = @ - 1]
         /\ taken_by' = [taken_by EXCEPT ![sch] = "record_medication"]
         /\ response' = "success"
         /\ UNCHANGED <<sessions, vision_events, clock>>

\* record_medication
record_medication(senior_id, medication_id, now) ==
    LET med == GetMedication(medication_id)
        sch == FirstSchedule(medication_id, now)
    IN
    IF med = NULL \/ MedicationSenior[med] # senior_id
    THEN /\ response' = "Medication not found"
         /\ UNCHANGED <<sessions, vision_events, taken, stock, clock, taken_by>>
    ELSE IF sch = NULL
    THEN /\ response' = "No medication scheduled at this time"
         /\ UNCHANGED <<sessions, vision_events, taken, stock, clock, taken_by>>
    ELSE IF taken[sch]
    THEN /\ response' = "Medication already taken"
         /\ UNCHANGED <<sessions, vision_events, taken, stock, clock, taken_by>>
    ELSE /\ taken' = [taken EXCEPT ![sch] = TRUE]
         /\ stock' = [stock EXCEPT ![med] = @ - 1]
         /\ taken_by' = [taken_by EXCEPT ![sch] = "record_medication"]
         /\ response' = "success"
         /\ UNCHANGED <<sessions, vision_events, clock>>

----------------------------------------------------------------------------
(* app.py: record_medication and record_vision_event served concurrently *)

\* Flask serves each request on a thread of its own with a database session
\* of its own.  A row a request loads is a copy: it shows the database as it
\* was at the query, and what the request assigns to it reaches the database
\* at db.session.commit().  The handlers are taken one query at a time; the
\* current time of a request is drawn when it arrives.

Threads == 1..MaxInFlight

Idle == [handler |-> "idle"]

\* what the requests served concurrently carry: they come from senior 1,
\* who owns the medications and the session of the store, for medication 1
\* or none
ConcurrentSeniorIds == {1}
ConcurrentMedicationIds == RequestMedicationIds

NewRequest(handler, pc, senior_id, medication_id, session_id, event_type, confidence, now) ==
    [ handler |-> handler, pc |-> pc, senior_id |-> senior_id,
      medication_id |-> medication_id, session_id |-> session_id,
      event_type |-> event_type, confidence |-> confidence, now |-> now,
      medication |-> NULL, loaded_stock |-> NULL, schedule |-> NULL ]

At(k, handler, pc) ==
    /\ requests[k].handler = handler
    /\ requests[k].pc = pc

\* the request of thread k moves on to statement pc
Goto(k, pc) == requests' = [requests EXCEPT ![k].pc = pc]

\* the request of thread k returns
Return(k, answer) ==
    /\ requests' = [requests EXCEPT ![k] = Idle]
    /\ response' = answer

\* a variant of the stock update that decrements in the database
\* (stock = stock - 1 in SQL) in place of writing the value computed from the
\* loaded row
StockWrittenInDatabase(loaded_stock, stored_stock) == stored_stock - 1

\* "medication.stock -= 1" on the loaded row: the value the commit writes
StockWritten(loaded_stock, stored_stock) == loaded_stock - 1

\* the commit of a request that set schedule.taken and lowered
\* medication.stock on its loaded rows
CommitTaken(k) ==
    LET r == requests[k] IN
    /\ taken' = [taken EXCEPT ![r.schedule] = TRUE]
    /\ stock' = [stock EXCEPT ![r.medication] = StockWritten(r.loaded_stock, @)]
    /\ taken_by' = [taken_by EXCEPT ![r.schedule] = r.handler]
    /\ marked' = Append(marked, [handler |-> r.handler, schedule |-> r.schedule])

\* a record_medication request arrives
ReceiveRecordMedication ==
    \E k \in Threads, snr \in ConcurrentSeniorIds, med \in ConcurrentMedicationIds,
       now \in Times :
        /\ UNCHANGED <<vision_vars, occlusion_vars, detect_state_vars>>
        /\ requests[k] = Idle
        /\ \A j \in 1..(k - 1) : requests[j] # Idle
        /\ requests' = [requests EXCEPT ![k] =
               NewRequest("record_medication", "get_medication", snr, med,
                          NULL, "none", NULL, now)]
        /\ UNCHANGED <<store_vars, marked>>

\* record_medication: Medication.query.get and the ownership check
MedicationGet ==
    \E k \in Threads :
        /\ UNCHANGED <<vision_vars, occlusion_vars, detect_state_vars>>
        /\ At(k, "record_medication", "get_medication")
        /\ LET r == requests[k]
               medication == GetMedication(r.medication_id)
           IN  IF medication = NULL \/ MedicationSenior[medication] # r.senior_id
               THEN /\ Return(k, "Medication not found")
                    /\ UNCHANGED <<sessions, vision_events, taken, stock, clock,
                                   taken_by, marked>>
               ELSE /\ requests' = [requests EXCEPT
                                      ![k].medication = medication,
                                      ![k].loaded_stock = stock[medication],
                                      ![k].pc = "get_schedule"]
                    /\ UNCHANGED <<store_vars, marked>>

\* record_medication: the schedule query and the two checks on its row
MedicationGetSchedule ==
    \E k \in Threads :
        /\ UNCHANGED <<vision_vars, occlusion_vars, detect_state_vars>>
        /\ At(k, "record_medication", "get_schedule")
        /\ LET r == requests[k]
               schedule == FirstSchedule(r.medication_id, r.now)
           IN  IF schedule = NULL
               THEN /\ Return(k, "No medication scheduled at this time")
                    /\ UNCHANGED <<sessions, vision_events, taken, stock, clock,
                                   taken_by, marked>>
               ELSE IF taken[schedule]
               THEN /\ Return(k, "Medication already taken")
                    /\ UNCHANGED <<sessions, vision_events, taken, stock, clock,
                                   taken_by, marked>>
               ELSE /\ requests' = [requests EXCEPT ![k].schedule = schedule,
                                                    ![k].pc = "commit"]
                    /\ UNCHANGED <<store_vars, marked>>

\* record_medication: the assignments and db.session.commit()
MedicationCommit ==
    \E k \in Threads :
        /\ UNCHANGED <<vision_vars, occlusion_vars, detect_state_vars>>
        /\ At(k, "record_medication", "commit")
        /\ CommitTaken(k)
        /\ Return(k, "success")
        /\ UNCHANGED <<sessions, vision_events, clock>>

\* a record_vision_event request arrives
ReceiveVisionEvent ==
    \E k \in Threads, snr \in ConcurrentSeniorIds, sid \in RequestSessionIds,
       ty \in EventTypes, c \in Confidences, now \in Times :
        /\ UNCHANGED <<vision_vars, occlusion_vars, detect_state_vars>>
        /\ requests[k] = Idle
        /\ \A j \in 1..(k - 1) : requests[j] # Idle
        /\ requests' = [requests EXCEPT ![k] =
               NewRequest("record_vision_event", "find_session", snr, NULL,
                          sid, ty, c, now)]
        /\ UNCHANGED <<store_vars, marked>>

\* record_vision_event: the session query, and the event added to the
\* database session
EventFindSession ==
    \E k \in Threads :
        /\ UNCHANGED <<vision_vars, occlusion_vars, detect_state_vars>>
        /\ At(k, "record_vision_event", "find_session")
        /\ LET r == requests[k] IN
           IF FindSession(r.session_id, r.senior_id) = NULL
           THEN /\ Return(k, "Invalid session")
                /\ UNCHANGED <<sessions, vision_events, taken, stock, clock,
                               taken_by, marked>>
           ELSE /\ Goto(k, IF r.event_type = "bottle_close"
                           THEN "query_events" ELSE "commit")
                /\ UNCHANGED <<store_vars, marked>>

\* record_vision_event: the events query (it sees the committed rows and
\* the request's own event) and the sequence test
EventQueryEvents ==
    \E k \in Threads :
        /\ UNCHANGED <<vision_vars, occlusion_vars, detect_state_vars>>
        /\ At(k, "record_vision_event", "query_events")
        /\ LET r == requests[k]
               events == Append(SessionEvents(vision_events, r.session_id),
                                [ session_id |-> r.session_id,
                                  event_type |-> r.event_type,
                                  confidence |-> r.confidence ])
           IN  Goto(k, IF CompleteSequence(events) THEN "get_medication" ELSE "commit")
        /\ UNCHANGED <<store_vars, marked>>

\* record_vision_event: Medication.query.get(session.medication_id)
EventGetMedication ==
    \E k \in Threads :
        /\ UNCHANGED <<vision_vars, occlusion_vars, detect_state_vars>>
        /\ At(k, "record_vision_event", "get_medication")
        /\ LET r == requests[k]
               medication == GetMedication(sessions[r.session_id].medication_id)
           IN  IF medication = NULL
               THEN Goto(k, "commit")
               ELSE requests' = [requests EXCEPT
                                   ![k].medication = medication,
                                   ![k].loaded_stock = stock[medication],
                                   ![k].pc = "get_schedule"]
        /\ UNCHANGED <<store_vars, marked>>

\* record_vision_event: the schedule query and "schedule and not
\* schedule.taken"
EventGetSchedule ==
    \E k \in Threads :
        /\ UNCHANGED <<vision_vars, occlusion_vars, detect_state_vars>>
        /\ At(k, "record_vision_event", "get_schedule")
        /\ LET r == requests[k]
               schedule == FirstSchedule(r.medication, r.now)
           IN  IF schedule # NULL /\ ~taken[schedule]
               THEN requests' = [requests EXCEPT ![k].schedule = schedule,
                                                 ![k].pc = "commit"]
               ELSE Goto(k, "commit")
        /\ UNCHANGED <<store_vars, marked>>

\* record_vision_event: db.session.commit() of the event and, when the
\* request set them, of the schedule and the medication
EventCommit ==
    \E k \in Threads :
        /\ UNCHANGED <<vision_vars, occlusion_vars, detect_state_vars>>
        /\ At(k, "record_vision_event", "commit")
        /\ Len(vision_events) < MaxEvents
        /\ vision_events' = Append(vision_events,
                                   [ session_id |-> requests[k].session_id,
                                     event_type |-> requests[k].event_type,
                                     confidence |-> requests[k].confidence ])
        /\ IF requests[k].schedule # NULL
           THEN CommitTaken(k)
           ELSE UNCHANGED <<taken, stock, taken_by, marked>>
        /\ Return(k, "success")
        /\ UNCHANGED <<sessions, clock>>

\* the store when the concurrent requests arrive: senior 1 has started a
\* session for medication 1 and recorded bottle_open and hand_to_mouth in it
ConcurrentStoreInit ==
    /\ sessions = << [ senior_id |-> 1, medication_id |-> 1,
                       status |-> "active", end_time |-> NULL ] >>
    /\ vision_events = EventRowsOf(1, <<"bottle_open", "hand_to_mouth">>)
    /\ taken = InitialTaken
    /\ stock = InitialStock
    /\ clock = 0
    /\ response = "success"
    /\ taken_by = [i \in 1..Len(ScheduleRows) |->
                      IF InitialTaken[i] THEN "init_sample_data" ELSE "nobody"]

\* the store after senior 1 has started two sessions for medication 1
TwoSessionsStoreInit ==
    /\ sessions = [i \in TwoSessionIds |->
                      [ senior_id |-> 1, medication_id |-> 1,
                        status |-> "active", end_time |-> NULL ]]
    /\ vision_events = <<>>
    /\ taken = InitialTaken
    /\ stock = InitialStock
    /\ clock = 0
    /\ response = "success"
    /\ taken_by = [i \in 1..Len(ScheduleRows) |->
                      IF InitialTaken[i] THEN "init_sample_data" ELSE "nobody"]

StoreInit ==
    /\ sessions = <<>>
    /\ vision_events = <<>>
    /\ taken = InitialTaken
    /\ stock = InitialStock
    /\ clock = 0
    /\ response = "none"
    /\ taken_by = [i \in 1..Len(ScheduleRows) |->
                      IF InitialTaken[i] THEN "init_sample_data" ELSE "nobody"]

----------------------------------------------------------------------------
(* Specifications *)

VisionInit == HandInit /\ BottleInit /\ frame_log = <<>>

\* no request is being served statement by statement
RequestsIdle ==
    /\ requests = [k \in 1..MaxInFlight |-> [handler |-> "idle"]]
    /\ marked = <<>>

\* no direct call of _handle_occlusions is made
OcclusionIdle ==
    /\ occlusion_bottles = <<>>
    /\ occlusion_hands = <<>>
    /\ occlusion_result = <<>>

\* no direct call of _detect_bottle_state is made
DetectStateIdle ==
    /\ state_bottle = <<>>
    /\ state_hands = <<>>
    /\ state_result = <<>>

\* a VisionProcessor (or a tracker of its own) with a template library
Init == VisionInit /\ StoreInit /\ RequestsIdle /\ OcclusionIdle /\ DetectStateIdle

\* the program as it starts: the library is the empty one of the code
CodeInit == Init /\ bottle_templates = <<>>

\* HandTracker.track, called frame after frame
HandTrack ==
    /\ \E cs \in HandFrames : HandTrackerTrack(cs)
    /\ UNCHANGED <<bottle_vars, frame_log, store_vars, request_vars, occlusion_vars,
                   detect_state_vars>>

SpecHand == CodeInit /\ [][HandTrack]_vars

\* BottleTracker.track, called frame after frame with the caller's hands
BottleTrack ==
    /\ \E cs \in BottleFrames, hands \in CallerHands : BottleTrackerTrack(cs, hands)
    /\ UNCHANGED <<hand_vars, frame_log, store_vars, request_vars, occlusion_vars,
                   detect_state_vars>>

SpecBottle == Init /\ [][BottleTrack]_vars

\* VisionProcessor.process_frame, called frame after frame
ProcessFrame ==
    /\ \E hcs \in ProcessorHandFrames, bcs \in BottleFrames : process_frame(hcs, bcs)
    /\ UNCHANGED <<store_vars, request_vars, occlusion_vars, detect_state_vars>>

Next == ProcessFrame

Spec == Init /\ [][Next]_vars

\* BottleTracker._handle_occlusions, called on any bottles and hands
CallHandleOcclusions ==
    /\ HandleOcclusions
    /\ UNCHANGED <<vision_vars, store_vars, request_vars, detect_state_vars>>

OcclusionInit ==
    VisionInit /\ StoreInit /\ RequestsIdle /\ OcclusionArguments /\ DetectStateIdle

\* BottleTracker._detect_bottle_state, called on any bottle and hands
CallDetectBottleState ==
    /\ DetectBottleState
    /\ UNCHANGED <<vision_vars, store_vars, request_vars, occlusion_vars>>

DetectStateInit ==
    VisionInit /\ StoreInit /\ RequestsIdle /\ OcclusionIdle /\ DetectStateArguments

SpecDetectState == DetectStateInit /\ [][CallDetectBottleState]_vars

SpecOcclusion == OcclusionInit /\ [][CallHandleOcclusions]_vars

\* the request handlers of app.py, one request at a time
StartVisionSession ==
    /\ \E snr \in SeniorIds, med \in RequestMedicationIds :
           start_vision_session(snr, med)
    /\ UNCHANGED <<vision_vars, request_vars, occlusion_vars, detect_state_vars>>

RecordVisionEvent ==
    /\ \E snr \in SeniorIds, sid \in RequestSessionIds, ty \in EventTypes,
           c \in Confidences, now \in Times :
           record_vision_event(snr, sid, ty, c, now)
    /\ UNCHANGED <<vision_vars, request_vars, occlusion_vars, detect_state_vars>>

EndVisionSession ==
    /\ \E snr \in SeniorIds, sid \in RequestSessionIds, st \in EndStatuses :
           end_vision_session(snr, sid, st)
    /\ UNCHANGED <<vision_vars, request_vars, occlusion_vars, detect_state_vars>>

ProcessVisionFrame ==
    /\ \E snr \in SeniorIds, sid \in RequestSessionIds :
           process_vision_frame(snr, sid)
    /\ UNCHANGED <<vision_vars, request_vars, occlusion_vars, detect_state_vars>>

RecordMedication ==
    /\ \E snr \in SeniorIds, med \in MedicationIds, now \in Times :
           record_medication(snr, med, now)
    /\ UNCHANGED <<vision_vars, request_vars, occlusion_vars, detect_state_vars>>

AppNext ==
    \/ StartVisionSession
    \/ RecordVisionEvent
    \/ EndVisionSession
    \/ ProcessVisionFrame
    \/ RecordMedication

SpecApp == CodeInit /\ [][AppNext]_vars

\* the two handlers that write VisionEvent rows, with the sessions they
\* write to; the confidence of a request is whatever number the client sent
RecordClientEvent ==
    /\ \E snr \in SeniorIds, sid \in RequestSessionIds, ty \in EventTypes,
           c \in ClientConfidences, now \in Times :
           record_vision_event(snr, sid, ty, c, now)
    /\ UNCHANGED <<vision_vars, request_vars, occlusion_vars, detect_state_vars>>

EventsNext ==
    \/ StartVisionSession
    \/ RecordClientEvent
    \/ ProcessVisionFrame

SpecEvents == CodeInit /\ [][EventsNext]_vars

\* the handlers that write VisionSession rows; the status of a session end
\* is whatever string the client sent
EndClientSession ==
    /\ \E snr \in SeniorIds, sid \in RequestSessionIds, st \in ClientEndStatuses :
           end_vision_session(snr, sid, st)
    /\ UNCHANGED <<vision_vars, request_vars, occlusion_vars, detect_state_vars>>

SessionsNext ==
    \/ StartVisionSession
    \/ EndClientSession
    \/ RecordVisionEvent

SpecSessions == CodeInit /\ [][SessionsNext]_vars

\* start and end requests, a second start included
StartSessionAgain ==
    /\ \E snr \in SeniorIds, med \in RequestMedicationIds :
           StartSessionUpTo(snr, med, MaxStarts)
    /\ UNCHANGED <<vision_vars, request_vars, occlusion_vars, detect_state_vars>>

EndEitherSession ==
    /\ \E snr \in SeniorIds, sid \in 1..MaxStarts, st \in EndStatuses :
           end_vision_session(snr, sid, st)
    /\ UNCHANGED <<vision_vars, request_vars, occlusion_vars, detect_state_vars>>

StartsNext ==
    \/ StartSessionAgain
    \/ EndEitherSession

SpecStarts == CodeInit /\ [][StartsNext]_vars

\* record_vision_event requests on two open sessions of one senior
RecordEventInEitherSession ==
    /\ \E snr \in SeniorIds, sid \in TwoSessionIds, ty \in EventTypes,
           c \in Confidences, now \in Times :
           record_vision_event(snr, sid, ty, c, now)
    /\ UNCHANGED <<vision_vars, request_vars, occlusion_vars, detect_state_vars>>

TwoSessionsInit ==
    /\ VisionInit
    /\ bottle_templates = <<>>
    /\ TwoSessionsStoreInit
    /\ RequestsIdle
    /\ OcclusionIdle
    /\ DetectStateIdle

SpecTwoSessions == TwoSessionsInit /\ [][RecordEventInEitherSession]_vars

\* record_medication and record_vision_event requests served at the same
\* time, their queries and commits interleaved in every order
ConcurrentInit ==
    /\ VisionInit
    /\ bottle_templates = <<>>
    /\ ConcurrentStoreInit
    /\ RequestsIdle
    /\ OcclusionIdle
    /\ DetectStateIdle

ConcurrentNext ==
    \/ ReceiveRecordMedication
    \/ MedicationGet
    \/ MedicationGetSchedule
    \/ MedicationCommit
    \/ ReceiveVisionEvent
    \/ EventFindSession
    \/ EventQueryEvents
    \/ EventGetMedication
    \/ EventGetSchedule
    \/ EventCommit

SpecConcurrent == ConcurrentInit /\ [][ConcurrentNext]_vars

----------------------------------------------------------------------------
(* Claims *)

\* the bottle events among the events a process_frame call returned
BottleEventTypes(entry) ==
    LET evs == SelectSeq(entry.result.events,
                         LAMBDA e : e.type \in {"bottle_open", "bottle_close"})
    IN  [i \in 1..Len(evs) |-> evs[i].type]

\* the first three frames of a VisionProcessor are the scenario of C1: the
\* bottle detected at (100,100) in each, no hand in frames 1 and 3, one hand
\* on the cap at orientation 0 in frame 2
EndToEndScenario ==
    /\ Len(frame_log) >= 3
    /\ \A k \in 1..3 :
           /\ Len(frame_log[k].detected) = 1
           /\ frame_log[k].detected[1].position = <<100, 100>>
    /\ frame_log[1].hands = <<>>
    /\ Len(frame_log[2].hands) = 1
    /\ frame_log[2].hands[1].orientation = 0
    /\ HandOnCap(frame_log[2].detected[1], frame_log[2].hands[1])
    /\ frame_log[3].hands = <<>>

\* C1: whenever the first three frames of a VisionProcessor are the scenario
\* (closed bottle, hand on the cap, no hand), no call raises, frame 1 returns
\* no bottle event, frame 2 returns exactly bottle_open and frame 3 exactly
\* bottle_close.
C1_EndToEndEvents ==
    EndToEndScenario =>
        /\ \A k \in 1..3 : ~frame_log[k].result.raised
        /\ BottleEventTypes(frame_log[1]) = <<>>
        /\ BottleEventTypes(frame_log[2]) = <<"bottle_open">>
        /\ BottleEventTypes(frame_log[3]) = <<"bottle_close">>

\* the events form the stream of C2: at least one hand_to_mouth and one
\* bottle_open, every hand_to_mouth before every bottle_open, no bottle_close
MouthBeforeOpen(events) ==
    /\ \E i \in 1..Len(events) : events[i].event_type = "hand_to_mouth"
    /\ \E i \in 1..Len(events) : events[i].event_type = "bottle_open"
    /\ \A i, j \in 1..Len(events) :
           (events[i].event_type = "bottle_open" /\ events[j].event_type = "hand_to_mouth")
               => j < i
    /\ \A i \in 1..Len(events) : events[i].event_type # "bottle_close"

\* C2: a record_vision_event request that records bottle_close in a session
\* whose events so far are hand_to_mouth events followed by bottle_open events
\* marks no schedule as taken and leaves every stock unchanged, whatever the
\* current time.
C2_OrderSensitive ==
    [][ \A snr \in SeniorIds, sid \in RequestSessionIds, c \in Confidences, now \in Times :
          ( /\ FindSession(sid, snr) # NULL
            /\ MouthBeforeOpen(SessionEvents(vision_events, sid))
            /\ record_vision_event(snr, sid, "bottle_close", c, now) )
          => (taken' = taken /\ stock' = stock) ]_vars

\* the events hold a bottle_open and, later, a hand_to_mouth
OpenThenMouth(events) ==
    \E i, j \in 1..Len(events) :
        /\ i < j
        /\ events[i].event_type = "bottle_open"
        /\ events[j].event_type = "hand_to_mouth"

\* C3: a record_vision_event request that records bottle_close in a session
\* whose events so far hold bottle_open and later hand_to_mouth (with any
\* events before, between and after them), and whose medication has an
\* untaken schedule at the current time, sets that schedule taken and lowers
\* the stock of the medication by exactly 1.
C3_SequenceMarksTaken ==
    [][ \A snr \in SeniorIds, sid \in RequestSessionIds, c \in Confidences, now \in Times,
           sch \in 1..Len(ScheduleRows) :
          ( /\ FindSession(sid, snr) # NULL
            /\ OpenThenMouth(SessionEvents(vision_events, sid))
            /\ ScheduleRows[sch].medication_id = sessions[sid].medication_id
            /\ ScheduleRows[sch].time = now
            /\ ~taken[sch]
            /\ record_vision_event(snr, sid, "bottle_close", c, now) )
          => ( /\ taken'[sch]
               /\ stock'[ScheduleRows[sch].medication_id]
                      = stock[ScheduleRows[sch].medication_id] - 1 ) ]_vars

\* C3 happens: a session recorded bottle_open, another event, hand_to_mouth
\* and bottle_close, and that last request marked schedule 2 as taken
C3_Witness ==
    /\ Len(vision_events) = 4
    /\ \A k \in 1..4 : vision_events[k].session_id = 1
    /\ vision_events[1].event_type = "bottle_open"
    /\ vision_events[2].event_type = "bottle_open"
    /\ vision_events[3].event_type = "hand_to_mouth"
    /\ vision_events[4].event_type = "bottle_close"
    /\ taken_by[2] = "record_vision_event"
    /\ stock[1] = InitialStock[1] - 1
    /\ response = "success"

\* C4: in the list a BottleTracker.track call returns, a bottle has
\* state_changed exactly when a bottle of the list the preceding call
\* returned lies within the gate of its detected position (the first such
\* one being the same bottle) and had another state.
C4_StateChangedAgainstPrecedingFrame ==
    [][ \A i \in 1..Len(bottles') :
          LET m == FirstBottleMatch(bottles, detected_bottles'[i].position) IN
          bottles'[i].state_changed
              = (m # 0 /\ bottles'[i].state # bottles[m].state) ]_vars

\* C5: when the preceding HandTracker.track call returned one hand and this
\* call has one detection, less than 50 px from that hand, the one hand this
\* call returns carries the id of that hand.
C5_HandIdStable ==
    [][ ( /\ Len(prev_hands) = 1
          /\ Len(detected_hands') = 1
          /\ Dist2(detected_hands'[1].center, prev_hands[1].center) < Gate * Gate )
        => ( /\ Len(prev_hands') = 1
             /\ prev_hands'[1].id = prev_hands[1].id ) ]_vars

\* C5 happens: the last call had one hand before it and one detection, which
\* had moved by less than 50 px, and the hand returned kept the id
C5_Witness ==
    /\ Len(hands_before) = 1
    /\ Len(detected_hands) = 1
    /\ detected_hands[1].center # hands_before[1].center
    /\ Dist2(detected_hands[1].center, hands_before[1].center) < Gate * Gate
    /\ Len(prev_hands) = 1
    /\ prev_hands[1].id = hands_before[1].id

\* C6: when the preceding BottleTracker.track call returned one bottle and
\* this call detects one bottle, less than 50 px from it, the one bottle this
\* call returns carries the id of that bottle.
C6_BottleIdStable ==
    [][ ( /\ Len(bottles) = 1
          /\ Len(detected_bottles') = 1
          /\ Dist2(detected_bottles'[1].position, bottles[1].position) < Gate * Gate )
        => ( /\ Len(bottles') = 1
             /\ bottles'[1].id = bottles[1].id ) ]_vars

\* detection i of the last call is at least 50 px from every hand of hs
FarFromAll(center, hs) ==
    \A j \in 1..Len(hs) : Dist2(center, hs[j].center) >= Gate * Gate

\* C7: a detection at a distance of 50 px or more from every hand of the
\* preceding frame is returned with an id that no hand of any earlier call,
\* and no hand before it in this call's list, has carried.
C7_HandIdChurn ==
    [][ \A i \in 1..Len(detected_hands') :
          FarFromAll(detected_hands'[i].center, prev_hands)
          => ( /\ prev_hands'[i].id \notin hand_ids_assigned
               /\ \A j \in 1..(i - 1) : prev_hands'[j].id # prev_hands'[i].id ) ]_vars

\* C7 happens: after several ids were given, a detection exactly 50 px from
\* a hand of the preceding frame (and not nearer to any) came back with an
\* id none of those hands had
C7_Witness ==
    \E i \in 1..Len(detected_hands) :
        /\ hands_before # <<>>
        /\ FarFromAll(detected_hands[i].center, hands_before)
        /\ \E j \in 1..Len(hands_before) :
               Dist2(detected_hands[i].center, hands_before[j].center) = Gate * Gate
        /\ \A j \in 1..Len(hands_before) : hands_before[j].id # prev_hands[i].id
        /\ prev_hands[i].id >= 2

\* C8: no two hands of the list HandTracker.track returned carry the same id.
C8_HandIdsUnique ==
    \A i, j \in 1..Len(prev_hands) :
        i # j => prev_hands[i].id # prev_hands[j].id

\* C9: once a session has an end_time, no request changes its end_time or
\* its status.
C9_EndedOnce ==
    [][ \A sid \in 1..Len(sessions) :
          sessions[sid].end_time # NULL
          => ( /\ sessions'[sid].end_time = sessions[sid].end_time
               /\ sessions'[sid].status = sessions[sid].status ) ]_vars

\* C10: a record_vision_event or process_vision_frame request for a session
\* that has been ended (its status is no longer active) returns an error and
\* adds no VisionEvent.
C10_ClosedSessionRejected ==
    [][ \A snr \in SeniorIds, sid \in RequestSessionIds, ty \in EventTypes,
           c \in Confidences, now \in Times :
          ( /\ sid \in 1..Len(sessions)
            /\ sessions[sid].status # "active"
            /\ \/ record_vision_event(snr, sid, ty, c, now)
               \/ process_vision_frame(snr, sid) )
          => ( /\ response' # "success"
               /\ vision_events' = vision_events ) ]_vars

\* C11: a record_vision_event, process_vision_frame or end_vision_session
\* request whose session id is not the id of a session of the calling senior
\* (no such session, or a session of another senior) returns "Invalid
\* session" and changes no session, event, taken flag or stock.
C11_InvalidSessionRejected ==
    [][ \A snr \in SeniorIds, sid \in RequestSessionIds, ty \in EventTypes,
           c \in Confidences, now \in Times, st \in EndStatuses :
          ( /\ \/ sid \notin 1..Len(sessions)
               \/ sessions[sid].senior_id # snr
            /\ \/ record_vision_event(snr, sid, ty, c, now)
               \/ process_vision_frame(snr, sid)
               \/ end_vision_session(snr, sid, st) )
          => ( /\ response' = "Invalid session"
               /\ sessions' = sessions
               /\ vision_events' = vision_events
               /\ taken' = taken
               /\ stock' = stock ) ]_vars

\* C11 happens: senior 1 has a session holding bottle_open and hand_to_mouth
\* that is still active, and the last request, which can only have come from
\* another senior, was answered "Invalid session"
C11_Witness ==
    /\ Len(sessions) = 1
    /\ sessions[1].senior_id = 1
    /\ sessions[1].medication_id = 1
    /\ sessions[1].status = "active"
    /\ Len(vision_events) = 2
    /\ vision_events[1].event_type = "bottle_open"
    /\ vision_events[2].event_type = "hand_to_mouth"
    /\ taken = InitialTaken
    /\ response = "Invalid session"

\* C12: a record_vision_event request that records bottle_open in a session
\* that already holds a bottle_open changes no taken flag and no stock, and
\* the sequence rule gives the same verdict with and without the copy on
\* every continuation of the stream; and no request ever resets a taken
\* flag, or changes a stock other than by lowering the stock of one
\* medication by 1 together with one schedule of it going from untaken to
\* taken.
C12_DuplicateOpenHarmless ==
    [][ /\ \A snr \in SeniorIds, sid \in RequestSessionIds, c \in Confidences, now \in Times :
             ( /\ FindSession(sid, snr) # NULL
               /\ \E i \in 1..Len(vision_events) :
                      /\ vision_events[i].session_id = sid
                      /\ vision_events[i].event_type = "bottle_open"
               /\ record_vision_event(snr, sid, "bottle_open", c, now) )
             => ( /\ taken' = taken
                  /\ stock' = stock
                  /\ \A more \in SeqsUpTo(EventTypes, 2) :
                         CompleteSequence(SessionEvents(vision_events' \o EventRowsOf(sid, more), sid))
                             = CompleteSequence(SessionEvents(vision_events \o EventRowsOf(sid, more), sid)) )
        /\ \A sch \in 1..Len(ScheduleRows) : taken[sch] => taken'[sch]
        /\ stock' # stock =>
               \E sch \in 1..Len(ScheduleRows) :
                   /\ ~taken[sch] /\ taken'[sch]
                   /\ \A other \in 1..Len(ScheduleRows) :
                          other # sch => taken'[other] = taken[other]
                   /\ stock' = [stock EXCEPT ![ScheduleRows[sch].medication_id] = @ - 1]
      ]_vars

\* C12 happens: a session recorded bottle_open, hand_to_mouth, a second
\* bottle_open and bottle_close; schedule 2 was marked by that last request
\* and the stock of medication 1 is one below its initial value
C12_Witness ==
    /\ Len(vision_events) = 4
    /\ \A k \in 1..4 : vision_events[k].session_id = 1
    /\ vision_events[1].event_type = "bottle_open"
    /\ vision_events[2].event_type = "hand_to_mouth"
    /\ vision_events[3].event_type = "bottle_open"
    /\ vision_events[4].event_type = "bottle_close"
    /\ taken_by[2] = "record_vision_event"
    /\ stock[1] = InitialStock[1] - 1

\* C20: a record_vision_event request for a session that was started without
\* a medication is answered with success and adds its event, and changes no
\* taken flag and no stock, whatever events the session holds.
C20_NoMedicationNoMarking ==
    [][ \A snr \in SeniorIds, sid \in RequestSessionIds, ty \in EventTypes,
           c \in Confidences, now \in Times :
          ( /\ FindSession(sid, snr) # NULL
            /\ sessions[sid].medication_id = NULL
            /\ record_vision_event(snr, sid, ty, c, now) )
          => ( /\ response' = "success"
               /\ Len(vision_events') = Len(vision_events) + 1
               /\ taken' = taken
               /\ stock' = stock ) ]_vars

\* C20 happens: a session without a medication recorded bottle_open,
\* hand_to_mouth and bottle_close, and every taken flag and stock is as it
\* was at the start
C20_Witness ==
    /\ Len(sessions) = 1
    /\ sessions[1].medication_id = NULL
    /\ Len(vision_events) = 3
    /\ vision_events[1].event_type = "bottle_open"
    /\ vision_events[2].event_type = "hand_to_mouth"
    /\ vision_events[3].event_type = "bottle_close"
    /\ response = "success"
    /\ taken = InitialTaken
    /\ stock = InitialStock

\* C14: a process_vision_frame request for a session of the caller succeeds
\* and runs its frame through the tracking state the session's earlier
\* requests left, leaving the state after this frame for the next request
\* (one more frame tracked by the same VisionProcessor).
C14_TrackingKeptPerSession ==
    [][ \A snr \in SeniorIds, sid \in RequestSessionIds :
          ( /\ FindSession(sid, snr) # NULL
            /\ process_vision_frame(snr, sid) )
          => ( /\ response' = "success"
               /\ Len(frame_log') = Len(frame_log) + 1 ) ]_vars

\* C18: every stored VisionEvent has a confidence in [0,1].
C18_StoredConfidenceInUnitInterval ==
    \A i \in 1..Len(vision_events) :
        /\ 0 <= vision_events[i].confidence
        /\ vision_events[i].confidence <= ConfScale

\* C15: a process_frame call whose frame gives no hand detection and no
\* bottle detection returns no event and raises nothing, and in it
\* HandTracker.track and BottleTracker.track return the empty list, whatever
\* the trackers held before.
C15_EmptyFrameNoError ==
    [][ (detected_hands' = <<>> /\ detected_bottles' = <<>>)
        => ( /\ prev_hands' = <<>>
             /\ bottles' = <<>>
             /\ frame_log' = Append(frame_log,
                                    [ hands    |-> <<>>,
                                      detected |-> <<>>,
                                      bottles  |-> <<>>,
                                      result   |-> [raised |-> FALSE, events |-> <<>>] ]) ) ]_vars

\* C15 happens: two frames with a hand and a bottle were tracked, then a
\* frame without detections came back empty and without events
C15_Witness ==
    /\ Len(frame_log) = 3
    /\ \A k \in 1..2 : frame_log[k].hands # <<>> /\ frame_log[k].detected # <<>>
    /\ prev_bottles # <<>>
    /\ frame_log[3].hands = <<>>
    /\ frame_log[3].detected = <<>>
    /\ frame_log[3].result = [raised |-> FALSE, events |-> <<>>]
    /\ prev_hands = <<>>
    /\ bottles = <<>>

\* the hand moves up by more than 2 px a frame and its center is in the
\* upper 60 % of the frame
MovingToMouth(hand) ==
    /\ hand.velocity[2] < -2
    /\ 10 * hand.center[2] < 6 * FrameHeight

\* C16: every process_frame call returns, without raising, exactly one
\* hand_to_mouth event for each tracked hand of its frame that moves up by
\* more than 2 px and lies in the upper 60 % of the frame, and none for any
\* other hand (so a hand that does so on k frames in a row gives k events).
C16_HandToMouthPerFrame ==
    \A k \in 1..Len(frame_log) :
        /\ ~frame_log[k].result.raised
        /\ Len(SelectSeq(frame_log[k].result.events,
                         LAMBDA e : e.type = "hand_to_mouth"))
               = Cardinality({i \in 1..Len(frame_log[k].hands) :
                                 MovingToMouth(frame_log[k].hands[i])})

\* the bottle events the claim asks for, for the bottles from index k on
RECURSIVE ExpectedBottleEvents(_, _)
ExpectedBottleEvents(bs, k) ==
    IF k > Len(bs) THEN <<>>
    ELSE (IF ~bs[k].state_changed THEN <<>>
          ELSE IF bs[k].state = "open" THEN <<"bottle_open">>
          ELSE <<"bottle_close">>)
         \o ExpectedBottleEvents(bs, k + 1)

\* C17: every detect_events call gives exactly one bottle event for each
\* bottle with state_changed (bottle_open for the state open, bottle_close
\* for closed) and none for the others; a call that raises gives no event.
C17_BottleEventPerStateChange ==
    \A k \in 1..Len(frame_log) :
        BottleEventTypes(frame_log[k]) = ExpectedBottleEvents(frame_log[k].bottles, 1)

\* the hands less than 100 px from the position of the bottle
HandsInReach(bottle, hands) ==
    {j \in 1..Len(hands) :
        Dist2(bottle.position, hands[j].center) < AttachDistance * AttachDistance}

\* C19: _handle_occlusions returns one bottle for each bottle given, raising
\* nothing; a bottle with confidence < 0.5 and a hand less than 100 px away
\* comes back at the center of a nearest hand plus half its own size
\* (integer halves) with occlusion_handled set; every other bottle (no hand
\* within 100 px, no hand at all, or confidence >= 0.5) comes back at its
\* position.
C19_OcclusionReattachment ==
    occlusion_result # <<>> =>
        /\ Len(occlusion_result[1]) = Len(occlusion_bottles)
        /\ \A i \in 1..Len(occlusion_bottles) :
             LET bottle == occlusion_bottles[i]
                 after  == occlusion_result[1][i]
                 reach  == HandsInReach(bottle, occlusion_hands)
             IN  IF bottle.confidence < OcclusionThreshold /\ reach # {}
                 THEN /\ after.occlusion_handled
                      /\ \E n \in reach :
                           /\ \A j \in 1..Len(occlusion_hands) :
                                  Dist2(bottle.position, occlusion_hands[n].center)
                                      <= Dist2(bottle.position, occlusion_hands[j].center)
                           /\ after.position =
                                  <<occlusion_hands[n].center[1] + (bottle.size[1] \div 2),
                                    occlusion_hands[n].center[2] + (bottle.size[2] \div 2)>>
                 ELSE after.position = bottle.position

\* C19 happens: of two bottles at (100,100), the one with confidence 0.3 and
\* size 41 x 101 was moved to the second hand, 99 px away (the first is
\* exactly 100 px away), and the one with confidence 0.5 stayed
C19_Witness ==
    /\ occlusion_result # <<>>
    /\ Len(occlusion_bottles) = 2
    /\ occlusion_bottles[1].confidence = 3000
    /\ occlusion_bottles[1].size = <<41, 101>>
    /\ occlusion_bottles[2].confidence = 5000
    /\ Len(occlusion_hands) = 2
    /\ occlusion_hands[1].center = <<160, 180>>
    /\ occlusion_hands[2].center = <<100, 199>>
    /\ occlusion_result[1][1].position = <<120, 249>>
    /\ occlusion_result[1][1].occlusion_handled
    /\ occlusion_result[1][2].position = <<100, 100>>
    /\ ~occlusion_result[1][2].occlusion_handled

\* the schedule entries of medication m that went from untaken to taken
NewlyTaken(m) ==
    {sch \in 1..Len(ScheduleRows) :
        /\ ScheduleRows[sch].medication_id = m
        /\ taken[sch]
        /\ ~InitialTaken[sch]}

\* C13: however the queries and commits of concurrent record_medication and
\* record_vision_event requests interleave, the stock of every medication
\* has gone down by exactly the number of its schedule entries that went
\* from untaken to taken (in the store of the model every medication has one
\* untaken entry, so the requests that lower a stock all target the same
\* entry).
C13_NoDoubleDecrement ==
    \A m \in 1..Len(InitialStock) :
        InitialStock[m] - stock[m] = Cardinality(NewlyTaken(m))

\* C13 happens: a record_medication and a record_vision_event request both
\* found schedule 2 untaken, both committed it as taken, and the stock of
\* medication 1 is one below its initial value
C13_Witness ==
    /\ Len(marked) = 2
    /\ \A i \in 1..2 : marked[i].schedule = 2
    /\ {marked[1].handler, marked[2].handler}
           = {"record_medication", "record_vision_event"}
    /\ taken[2]
    /\ stock[1] = InitialStock[1] - 1

\* C21: every VisionSession has a status among active, completed and
\* failed, and its end_time is null exactly when its status is active.
C21_SessionStatusAndEndTime ==
    \A sid \in 1..Len(sessions) :
        /\ sessions[sid].status \in {"active", "completed", "failed"}
        /\ (sessions[sid].end_time = NULL) <=> (sessions[sid].status = "active")

\* C22: _detect_bottle_state returns open exactly when some hand lies
\* strictly inside the cap region widened by the hand's radius
\* (x - r < hx < x + w + r and y - r < hy < y + floor(0.2 h) + r) at an
\* orientation strictly inside (-45,45), (135,225) or (-135,-45), and closed
\* otherwise; a hand at exactly 45, -45 or 135 degrees does not open it.
OpensBottle(bottle, hand) ==
    LET x  == bottle.position[1]
        y  == bottle.position[2]
        w  == bottle.size[1]
        h  == bottle.size[2]
        r  == hand.radius
        o  == hand.orientation
        fifth == CHOOSE k \in 0..h : 5 * k <= h /\ h < 5 * (k + 1)
    IN  /\ hand.center[1] \in (x - r + 1)..(x + w + r - 1)
        /\ hand.center[2] \in (y - r + 1)..(y + fifth + r - 1)
        /\ o \in (-44..44) \cup (136..224) \cup (-134..-46)

C22_OpenExactlyOnTwistingGrip ==
    state_result # <<>> =>
        /\ state_result[1] \in {"open", "closed"}
        /\ state_result[1] = "open" <=>
               \E i \in 1..Len(state_hands) : OpensBottle(state_bottle, state_hands[i])
        /\ (\A i \in 1..Len(state_hands) :
                state_hands[i].orientation \in {45, -45, 135})
               => state_result[1] = "closed"

\* a hand on the end of a band and inside the cap region left the bottle
\* closed, and a hand inside a band on the edge of the region did too
C22_Witness ==
    /\ state_result = <<"closed">>
    /\ Len(state_hands) = 2
    /\ state_hands[1].center = <<81, 81>> /\ state_hands[1].orientation = 45
    /\ state_hands[2].center = <<100, 140>> /\ state_hands[2].orientation = 0

\* the ids of the hands of a list
HandIds(hs) == {hs[j].id : j \in 1..Len(hs)}

\* C23: a hand id that some track output carried and the next output did not
\* carry is never carried by a later output: an id that earlier outputs
\* carried and the latest output does not carry is on no hand of this call's
\* output.
C23_HandIdRetired ==
    [][ \A i \in hand_ids_assigned \ HandIds(prev_hands) :
            i \notin HandIds(prev_hands') ]_vars

\* C23 happens: id 0 was carried, the output before the last call and the
\* last output both hold hands, and none of them carries id 0
C23_Witness ==
    /\ 0 \in hand_ids_assigned
    /\ hands_before # <<>> /\ 0 \notin HandIds(hands_before)
    /\ prev_hands # <<>> /\ 0 \notin HandIds(prev_hands)

\* the previous hands (by index) less than 50 px from center c
HandsInGate(c, hs) ==
    {j \in 1..Len(hs) : Dist2(c, hs[j].center) < Gate * Gate}

\* the least element of a non-empty set of indexes
Least(S) == CHOOSE m \in S : \A n \in S : m <= n

\* C24: a matched hand's velocity is its center minus the center of the
\* previous hand it matched (the first within 50 px); an unmatched hand's
\* velocity is (0,0), so a hand on its first appearance does not qualify for
\* hand_to_mouth.
C24_VelocityFromMatch ==
    [][ \A i \in 1..Len(prev_hands') :
          LET c    == detected_hands'[i].center
              near == HandsInGate(c, prev_hands)
          IN  IF near = {}
              THEN /\ prev_hands'[i].velocity = <<0, 0>>
                   /\ ~MovingToMouth(prev_hands'[i])
                   /\ _is_hand_near_mouth(prev_hands'[i]) = "False"
              ELSE /\ prev_hands'[i].velocity[1]
                          = c[1] - prev_hands[Least(near)].center[1]
                   /\ prev_hands'[i].velocity[2]
                          = c[2] - prev_hands[Least(near)].center[2] ]_vars

\* C24 happens: of the two hands of the last call one had moved up by 40 px
\* from a hand of the preceding frame, and the other was new
C24_Witness ==
    /\ Len(hands_before) = 1
    /\ Len(prev_hands) = 2
    /\ \E i, j \in 1..2 :
          /\ prev_hands[i].id = hands_before[1].id
          /\ prev_hands[i].velocity = <<0, -40>>
          /\ prev_hands[j].id # hands_before[1].id
          /\ prev_hands[j].velocity = <<0, 0>>

\* C25: a detection takes the id of the first previous hand, in the order of
\* the previous list, that is less than 50 px from it, even when a later
\* previous hand is strictly closer; the id depends on the detection and the
\* ordered previous list only.
C25_FirstMatchPolicy ==
    [][ \A i \in 1..Len(prev_hands') :
          LET near == HandsInGate(detected_hands'[i].center, prev_hands)
          IN  near # {} => prev_hands'[i].id = prev_hands[Least(near)].id ]_vars

\* C25 happens: the detection was within 50 px of both previous hands and
\* strictly closer to the second, and came back with the id of the first
C25_Witness ==
    /\ Len(hands_before) = 2
    /\ hands_before[1].id # hands_before[2].id
    /\ \E i \in 1..Len(prev_hands) :
          /\ HandsInGate(detected_hands[i].center, hands_before) = {1, 2}
          /\ Dist2(detected_hands[i].center, hands_before[2].center)
                < Dist2(detected_hands[i].center, hands_before[1].center)
          /\ prev_hands[i].id = hands_before[1].id

\* session sid holds an event of type ty among the rows stored
HasEvent(sid, ty) ==
    \E i \in 1..Len(vision_events) :
        /\ vision_events[i].session_id = sid
        /\ vision_events[i].event_type = ty

\* C26: the sequence rule looks at one session only: a bottle_close recorded
\* in a session that itself holds no bottle_open or no hand_to_mouth marks no
\* schedule taken and changes no stock, whatever the other sessions hold.
C26_SequenceScopedToSession ==
    [][ \A snr \in SeniorIds, sid \in TwoSessionIds, c \in Confidences, now \in Times :
          ( /\ ~(HasEvent(sid, "bottle_open") /\ HasEvent(sid, "hand_to_mouth"))
            /\ record_vision_event(snr, sid, "bottle_close", c, now) )
          => (taken' = taken /\ stock' = stock) ]_vars

\* C26 happens: session 1 recorded bottle_open and hand_to_mouth, then
\* session 2 (same senior, same medication) recorded bottle_open and
\* bottle_close, and no dose was marked
C26_Witness ==
    /\ Len(vision_events) = 4
    /\ vision_events[1] = [session_id |-> 1, event_type |-> "bottle_open", confidence |-> 9000]
    /\ vision_events[2] = [session_id |-> 1, event_type |-> "hand_to_mouth", confidence |-> 9000]
    /\ vision_events[3] = [session_id |-> 2, event_type |-> "bottle_open", confidence |-> 9000]
    /\ vision_events[4] = [session_id |-> 2, event_type |-> "bottle_close", confidence |-> 9000]
    /\ sessions[1].medication_id = sessions[2].medication_id
    /\ taken = InitialTaken
    /\ stock = InitialStock
    /\ response = "success"

\* the ids of the bottles of a list
BottleIds(bs) == {bs[j].id : j \in 1..Len(bs)}

\* C27: the id given to an unmatched bottle differs from every id the tracker
\* has assigned before.  The ids on the bottles of the two preceding outputs
\* (self.bottles and self.prev_bottles) are among the ids assigned before, so
\* the id of an unmatched bottle is on none of them.
C27_BottleIdNeverReused ==
    [][ \A i \in 1..Len(bottles') :
          FirstBottleMatch(prev_bottles, detected_bottles'[i].position) = 0
          => bottles'[i].id \notin BottleIds(bottles) \cup BottleIds(prev_bottles) ]_vars

\* C28: with an empty template library BottleTracker.track returns the empty
\* list on every frame and every hand list, so no process_frame call returns
\* a bottle_open or bottle_close event; and nothing the tracker holds
\* (bottles, prev_bottles) differs from a tracker that saw no bottle.
C28_EmptyLibraryNoBottles ==
    bottle_templates = <<>> =>
        /\ bottles = <<>>
        /\ prev_bottles = <<>>
        /\ detected_bottles = <<>>
        /\ \A k \in 1..Len(frame_log) :
              /\ frame_log[k].bottles = <<>>
              /\ BottleEventTypes(frame_log[k]) = <<>>

\* C28 happens: a VisionProcessor with the empty library processed three
\* frames, each with a hand
C28_Witness ==
    /\ bottle_templates = <<>>
    /\ Len(frame_log) = 3
    /\ \A k \in 1..3 : frame_log[k].hands # <<>> /\ frame_log[k].bottles = <<>>

\* C29: every bottle BottleTracker.track returns has a confidence above 0.7,
\* so _handle_occlusions never takes its branch on it: the bottle has no
\* occlusion_handled mark, is attached to no hand, and its position is the
\* position it was detected at.
C29_NoOcclusionOnTrackPath ==
    /\ Len(bottles) = Len(detected_bottles)
    /\ \A i \in 1..Len(bottles) :
          /\ bottles[i].confidence > 7000
          /\ ~bottles[i].occlusion_handled
          /\ bottles[i].attached_to_hand = -1
          /\ bottles[i].position = detected_bottles[i].position

\* C29 happens: track returned a bottle with a hand on its cap (less than
\* 100 px away), at the position it was detected at
C29_Witness ==
    /\ Len(bottles) = 1
    /\ bottles[1].state = "open"
    /\ bottles[1].confidence = 8000
    /\ ~bottles[1].occlusion_handled
    /\ bottles[1].position = detected_bottles[1].position

C31_StockNeverNegative ==
    \A med \in 1..Len(stock) : stock[med] >= 0

\* C31 happens: every dose there is was recorded, one through each route,
\* and each stock went down by the doses of its medication
C31_Witness ==
    /\ taken = <<TRUE, TRUE, TRUE>>
    /\ taken_by[2] = "record_vision_event"
    /\ taken_by[3] = "record_medication"
    /\ stock = <<InitialStock[1] - 1, InitialStock[2] - 1>>

\* the active sessions of a senior
ActiveSessions(senior_id) ==
    {i \in 1..Len(sessions) :
        sessions[i].senior_id = senior_id /\ sessions[i].status = "active"}

\* C32: after any sequence of start_vision_session and end_vision_session
\* requests, each senior has at most one VisionSession with status active.
C32_OneActiveSessionPerSenior ==
    \A snr \in SeniorIds : Cardinality(ActiveSessions(snr)) <= 1

=============================================================================
